---- MODULE Spec2Model ----
(***************************************************************************)
(* Chasing Your Tail: the live monitoring program (chasing_your_tail.py    *)
(* driving SecureCYTMonitor), the GPS location session manager             *)
(* (GPSTracker) and the batch surveillance detector (SurveillanceDetector).*)
(*                                                                         *)
(* The three components keep independent state; each has its own           *)
(* specification (SpecMonitor, SpecGPS, SpecDetector) over the variables   *)
(* it owns, the other components' variables staying at their constructed   *)
(* values.  Three further specifications start from drawn states:          *)
(* SpecRotate (the monitoring loop on a silent source), SpecScore          *)
(* (_calculate_persistence_score applied to drawn lists) and SpecAnalyze   *)
(* (analyze_surveillance_patterns on two recorded devices).                *)
(***************************************************************************)
EXTENDS Integers, Sequences, FiniteSets, TLC

VARIABLES
    \* ---- the capture source and the configuration ----
    table,                        \* rows of the capture database's devices table
    list_update_interval,         \* config: timing.list_update_interval
    origin,                       \* the eight buckets as the monitoring loop first found them
    \* ---- chasing_your_tail.py / SecureCYTMonitor ----
    pc,                           \* position of the main program
    init_done,                    \* number of initialization queries completed
    time_count,                   \* chasing_your_tail.py: cycle counter
    past_five_mins_macs,
    five_ten_min_ago_macs,
    ten_fifteen_min_ago_macs,
    fifteen_twenty_min_ago_macs,
    past_five_mins_ssids,
    five_ten_min_ago_ssids,
    ten_fifteen_min_ago_ssids,
    fifteen_twenty_min_ago_ssids,
    current_devices,              \* process_current_activity: rows of the active slice
    emitted,                      \* reappearance messages written by the call in progress
    failure,                      \* the latest logged failure: operation and cycle
    saved,                        \* the eight buckets as they were when the call in progress began
    exit_from,                    \* position at which the process was told to exit
    \* ---- GPSTracker ----
    clock,                        \* time.time()
    locations,
    location_sessions,
    current_location,             \* index into location_sessions, 0 = None
    call_log,                     \* per add_gps_reading call: value returned, sessions before
    attributed,                   \* the value returned by the
                                  \* add_device_at_current_location call just made
    across,                       \* the value the latest get_devices_across_locations
                                  \* call returned
    \* ---- SurveillanceDetector ----
    appearances,
    device_history,               \* mac -> list of appearances
    history_keys,                 \* insertion order of device_history's keys
    results,                      \* the values returned by the analyze calls, in call order
    \* ---- _calculate_persistence_score on its own ----
    scored_list,                  \* the list of appearances passed to the call
    scored_value,                 \* the value the call on scored_list returned
    scored_before                 \* the call before it: its list, its value, how scored_list derives from its list

monVars == <<pc, init_done, time_count,
             past_five_mins_macs, five_ten_min_ago_macs,
             ten_fifteen_min_ago_macs, fifteen_twenty_min_ago_macs,
             past_five_mins_ssids, five_ten_min_ago_ssids,
             ten_fifteen_min_ago_ssids, fifteen_twenty_min_ago_ssids,
             current_devices, emitted, failure, saved, exit_from>>
gpsVars == <<clock, locations, location_sessions, current_location, call_log,
             attributed, across>>
detVars == <<appearances, device_history, history_keys, results>>
envVars == <<table, list_update_interval, origin>>
scoreVars == <<scored_list, scored_value, scored_before>>
vars == <<envVars, monVars, gpsVars, detVars, scoreVars>>

(***************************************************************************)
(* Bounds                                                                  *)
(***************************************************************************)
MaxCycles == 4
ListUpdateInterval == 2

(***************************************************************************)
(* The capture source.  A row of the devices table carries the device      *)
(* identifier as the source spells it and the last probed network name     *)
(* ("" when the device JSON has none).                                     *)
(***************************************************************************)
DeviceRows ==
    { [devmac |-> "aa:01", ssid |-> "home"],
      [devmac |-> "BB:02", ssid |-> ""],
      [devmac |-> "cc:03", ssid |-> "spam"] }

\* a query either raises (sqlite3.Error) or returns some rows of the table:
\* the rows whose last_time lies in the window asked for, both ends included
\* (last_time >= ? AND last_time <= ?).  The rows' last_time and the wall
\* clock are not part of the state, so any set of rows can be the answer, and
\* a row whose last_time is the bound shared by two windows is in both answers
QueryFailed == [ok |-> FALSE, rows |-> {}]
QueryOutcomes == {[ok |-> TRUE, rows |-> rs] : rs \in SUBSET table}
                    \cup {QueryFailed}

\* str.upper() on the identifiers the source can report
Upper(s) ==
    CASE s = "aa:01" -> "AA:01"
      [] s = "bb:02" -> "BB:02"
      [] s = "cc:03" -> "CC:03"
      [] OTHER -> s

ConfigIgnoreList == {"cc:03"}
ConfigSsidIgnoreList == {"spam"}

ignore_list == {Upper(mac) : mac \in ConfigIgnoreList}
ssid_ignore_list == ConfigSsidIgnoreList

get_mac_addresses_by_time_range(rows) ==
    {r.devmac : r \in {d \in rows : d.devmac # ""}}

get_probe_requests_by_time_range(rows) ==
    {r.ssid : r \in {d \in rows : d.ssid # ""}}

\* the ignore list is looked up with the identifier as the source gives it
_filter_macs_as_given(mac_list) ==
    {Upper(mac) : mac \in {m \in mac_list : m \notin ignore_list}}

_filter_macs(mac_list) ==
    {Upper(mac) : mac \in {m \in mac_list : Upper(m) \notin ignore_list}}

_filter_ssids(ssid_list) ==
    {ssid \in ssid_list : ssid # "" /\ ssid \notin ssid_ignore_list}

macBuckets == <<past_five_mins_macs, five_ten_min_ago_macs,
                ten_fifteen_min_ago_macs, fifteen_twenty_min_ago_macs>>
ssidBuckets == <<past_five_mins_ssids, five_ten_min_ago_ssids,
                 ten_fifteen_min_ago_ssids, fifteen_twenty_min_ago_ssids>>
Buckets == <<macBuckets, ssidBuckets>>
NoSnapshot == <<>>

Windows == {"5 to 10", "10 to 15", "15 to 20"}

\* _check_ssid_history: one message per historical list holding the name
_check_ssid_history(ssid) ==
    {[kind |-> "probe", id |-> ssid, window |-> w] : w \in
        {w \in Windows :
            \/ w = "5 to 10"  /\ ssid \in five_ten_min_ago_ssids
            \/ w = "10 to 15" /\ ssid \in ten_fifteen_min_ago_ssids
            \/ w = "15 to 20" /\ ssid \in fifteen_twenty_min_ago_ssids}}

_process_probe_requests(row) ==
    IF row.ssid = "" \/ row.ssid \in ssid_ignore_list
    THEN {}
    ELSE _check_ssid_history(row.ssid)

\* _process_mac_tracking: the identifier is looked up as the source spelt it
_process_mac_tracking(mac) ==
    IF Upper(mac) \in ignore_list
    THEN {}
    ELSE {[kind |-> "mac", id |-> mac, window |-> w] : w \in
            {w \in Windows :
                \/ w = "5 to 10"  /\ mac \in five_ten_min_ago_macs
                \/ w = "10 to 15" /\ mac \in ten_fifteen_min_ago_macs
                \/ w = "15 to 20" /\ mac \in fifteen_twenty_min_ago_macs}}

InitMon ==
    /\ table = DeviceRows
    /\ list_update_interval = ListUpdateInterval
    /\ origin = NoSnapshot
    /\ pc = "init_connect"
    /\ init_done = 0
    /\ time_count = 0
    /\ past_five_mins_macs = {}
    /\ five_ten_min_ago_macs = {}
    /\ ten_fifteen_min_ago_macs = {}
    /\ fifteen_twenty_min_ago_macs = {}
    /\ past_five_mins_ssids = {}
    /\ five_ten_min_ago_ssids = {}
    /\ ten_fifteen_min_ago_ssids = {}
    /\ fifteen_twenty_min_ago_ssids = {}
    /\ current_devices = {}
    /\ emitted = {}
    /\ failure = [kind |-> "none", cycle |-> 0]
    /\ saved = NoSnapshot
    /\ exit_from = "none"

macVars == <<past_five_mins_macs, five_ten_min_ago_macs,
             ten_fifteen_min_ago_macs, fifteen_twenty_min_ago_macs>>
ssidVars == <<past_five_mins_ssids, five_ten_min_ago_ssids,
              ten_fifteen_min_ago_ssids, fifteen_twenty_min_ago_ssids>>

(***************************************************************************)
(* Start-up: open the newest capture database, validate it, initialize     *)
(* the tracking lists.  Any exception is fatal (sys.exit(1)).              *)
(***************************************************************************)
InitConnect ==
    /\ pc = "init_connect"
    /\ \E ok \in BOOLEAN :
         IF ok
         THEN /\ pc' = "initialize"
              /\ saved' = Buckets
              /\ UNCHANGED failure
         ELSE /\ pc' = "exit_fatal"
              /\ failure' = [kind |-> "connect", cycle |-> time_count]
              /\ UNCHANGED saved
    /\ UNCHANGED <<init_done, time_count, macVars, ssidVars,
                   current_devices, emitted, exit_from>>
    /\ UNCHANGED <<envVars, gpsVars, detVars, scoreVars>>

\* the k-th assignment of _initialize_mac_lists / _initialize_ssid_lists
InitAssign(k, rows) ==
    /\ past_five_mins_macs' =
         IF k = 1 THEN _filter_macs(get_mac_addresses_by_time_range(rows))
                  ELSE past_five_mins_macs
    /\ five_ten_min_ago_macs' =
         IF k = 2 THEN _filter_macs(get_mac_addresses_by_time_range(rows))
                  ELSE five_ten_min_ago_macs
    /\ ten_fifteen_min_ago_macs' =
         IF k = 3 THEN _filter_macs(get_mac_addresses_by_time_range(rows))
                  ELSE ten_fifteen_min_ago_macs
    /\ fifteen_twenty_min_ago_macs' =
         IF k = 4 THEN _filter_macs(get_mac_addresses_by_time_range(rows))
                  ELSE fifteen_twenty_min_ago_macs
    /\ past_five_mins_ssids' =
         IF k = 5 THEN _filter_ssids(get_probe_requests_by_time_range(rows))
                  ELSE past_five_mins_ssids
    /\ five_ten_min_ago_ssids' =
         IF k = 6 THEN _filter_ssids(get_probe_requests_by_time_range(rows))
                  ELSE five_ten_min_ago_ssids
    /\ ten_fifteen_min_ago_ssids' =
         IF k = 7 THEN _filter_ssids(get_probe_requests_by_time_range(rows))
                  ELSE ten_fifteen_min_ago_ssids
    /\ fifteen_twenty_min_ago_ssids' =
         IF k = 8 THEN _filter_ssids(get_probe_requests_by_time_range(rows))
                  ELSE fifteen_twenty_min_ago_ssids

\* initialize_tracking_lists, one source query at a time; a failed query
\* is logged and re-raised, and the caller exits
initialize_tracking_lists ==
    /\ pc = "initialize"
    /\ init_done < 8
    /\ \E q \in QueryOutcomes :
         IF ~q.ok
         THEN /\ pc' = "exit_fatal"
              /\ failure' = [kind |-> "initialize", cycle |-> time_count]
              /\ UNCHANGED <<init_done, macVars, ssidVars, saved>>
         ELSE /\ InitAssign(init_done + 1, q.rows)
              /\ init_done' = init_done + 1
              /\ pc' = IF init_done + 1 = 8 THEN "loop_top" ELSE "initialize"
              /\ saved' = IF init_done + 1 = 8 THEN NoSnapshot ELSE saved
              /\ UNCHANGED failure
    /\ UNCHANGED <<time_count, current_devices, emitted, exit_from>>
    /\ UNCHANGED <<envVars, gpsVars, detVars, scoreVars>>

(***************************************************************************)
(* The monitoring loop                                                     *)
(***************************************************************************)
LoopPcs == {"loop_top", "connect", "process", "check_rotate",
            "rotate_shift", "rotate_macs", "rotate_ssids", "sleep"}

\* while True: time_count += 1
LoopTop ==
    /\ pc = "loop_top"
    /\ time_count < MaxCycles
    /\ time_count' = time_count + 1
    /\ pc' = "connect"
    /\ UNCHANGED <<init_done, macVars, ssidVars, current_devices, emitted,
                   failure, saved, exit_from>>
    /\ UNCHANGED <<envVars, gpsVars, detVars, scoreVars>>

\* the handler ends the program instead of continuing
LoopExcept_exits ==
    /\ pc' = "exit_fatal"
    /\ failure' = [kind |-> "connect", cycle |-> time_count]

\* except Exception in the loop: log and continue (no sleep)
LoopExcept ==
    /\ pc' = "loop_top"
    /\ failure' = [kind |-> "connect", cycle |-> time_count]

\* with SecureKismetDB(latest_file) as db
Connect ==
    /\ pc = "connect"
    /\ \E ok \in BOOLEAN :
         IF ok
         THEN /\ pc' = "process"
              /\ UNCHANGED failure
         ELSE LoopExcept
    /\ UNCHANGED <<init_done, time_count, macVars, ssidVars, current_devices,
                   emitted, saved, exit_from>>
    /\ UNCHANGED <<envVars, gpsVars, detVars, scoreVars>>

\* the identifiers of the active slice are added to the newest list
process_current_activity_tracks ==
    /\ pc = "process"
    /\ \E q \in QueryOutcomes :
         IF ~q.ok
         THEN /\ current_devices' = {}
              /\ emitted' = {}
              /\ failure' = [kind |-> "process", cycle |-> time_count]
              /\ UNCHANGED past_five_mins_macs
         ELSE /\ current_devices' = q.rows
              /\ emitted' = UNION {_process_probe_requests(d)
                                     \cup _process_mac_tracking(d.devmac) :
                                   d \in {r \in q.rows : r.devmac # ""}}
              /\ past_five_mins_macs' = past_five_mins_macs \cup
                    _filter_macs(get_mac_addresses_by_time_range(q.rows))
              /\ UNCHANGED failure
    /\ pc' = "check_rotate"
    /\ UNCHANGED <<init_done, time_count, five_ten_min_ago_macs,
                   ten_fifteen_min_ago_macs, fifteen_twenty_min_ago_macs,
                   ssidVars, saved, exit_from>>
    /\ UNCHANGED <<envVars, gpsVars, detVars, scoreVars>>

\* process_current_activity: a failed query is logged and swallowed
process_current_activity ==
    /\ pc = "process"
    /\ \E q \in QueryOutcomes :
         IF ~q.ok
         THEN /\ current_devices' = {}
              /\ emitted' = {}
              /\ failure' = [kind |-> "process", cycle |-> time_count]
         ELSE /\ current_devices' = q.rows
              /\ emitted' = UNION {_process_probe_requests(d)
                                     \cup _process_mac_tracking(d.devmac) :
                                   d \in {r \in q.rows : r.devmac # ""}}
              /\ UNCHANGED failure
    /\ pc' = "check_rotate"
    /\ UNCHANGED <<init_done, time_count, macVars, ssidVars, saved, exit_from>>
    /\ UNCHANGED <<envVars, gpsVars, detVars, scoreVars>>

\* if time_count % list_update_interval == 0
CheckRotate ==
    /\ pc = "check_rotate"
    /\ pc' = IF time_count % list_update_interval = 0 THEN "rotate_shift"
                                                      ELSE "sleep"
    /\ current_devices' = {}
    /\ emitted' = {}
    /\ UNCHANGED <<init_done, time_count, macVars, ssidVars, failure, saved,
                   exit_from>>
    /\ UNCHANGED <<envVars, gpsVars, detVars, scoreVars>>

\* each list is assigned after the list it is copied from
RotateShift_newest_first ==
    /\ pc = "rotate_shift"
    /\ saved' = Buckets
    /\ five_ten_min_ago_macs' = past_five_mins_macs
    /\ ten_fifteen_min_ago_macs' = five_ten_min_ago_macs'
    /\ fifteen_twenty_min_ago_macs' = ten_fifteen_min_ago_macs'
    /\ five_ten_min_ago_ssids' = past_five_mins_ssids
    /\ ten_fifteen_min_ago_ssids' = five_ten_min_ago_ssids'
    /\ fifteen_twenty_min_ago_ssids' = ten_fifteen_min_ago_ssids'
    /\ pc' = "rotate_macs"
    /\ UNCHANGED <<init_done, time_count, past_five_mins_macs,
                   past_five_mins_ssids, current_devices, emitted, failure,
                   exit_from>>
    /\ UNCHANGED <<envVars, gpsVars, detVars, scoreVars>>

\* rotate_tracking_lists, lines 219-226: the six shifting assignments
RotateShift ==
    /\ pc = "rotate_shift"
    /\ saved' = Buckets
    /\ fifteen_twenty_min_ago_macs' = ten_fifteen_min_ago_macs
    /\ ten_fifteen_min_ago_macs' = five_ten_min_ago_macs
    /\ five_ten_min_ago_macs' = past_five_mins_macs
    /\ fifteen_twenty_min_ago_ssids' = ten_fifteen_min_ago_ssids
    /\ ten_fifteen_min_ago_ssids' = five_ten_min_ago_ssids
    /\ five_ten_min_ago_ssids' = past_five_mins_ssids
    /\ pc' = "rotate_macs"
    /\ UNCHANGED <<init_done, time_count, past_five_mins_macs,
                   past_five_mins_ssids, current_devices, emitted, failure,
                   exit_from>>
    /\ UNCHANGED <<envVars, gpsVars, detVars, scoreVars>>

\* rotate_tracking_lists, lines 232-233; a failed query is logged and swallowed
RotateMacs ==
    /\ pc = "rotate_macs"
    /\ \E q \in QueryOutcomes :
         IF ~q.ok
         THEN /\ failure' = [kind |-> "rotate", cycle |-> time_count]
              /\ pc' = "sleep"
              /\ UNCHANGED past_five_mins_macs
         ELSE /\ past_five_mins_macs' =
                    _filter_macs(get_mac_addresses_by_time_range(q.rows))
              /\ pc' = "rotate_ssids"
              /\ UNCHANGED failure
    /\ UNCHANGED <<init_done, time_count, five_ten_min_ago_macs,
                   ten_fifteen_min_ago_macs, fifteen_twenty_min_ago_macs,
                   ssidVars, current_devices, emitted, saved, exit_from>>
    /\ UNCHANGED <<envVars, gpsVars, detVars, scoreVars>>

\* rotate_tracking_lists, lines 236-242
RotateSsids ==
    /\ pc = "rotate_ssids"
    /\ \E q \in QueryOutcomes :
         IF ~q.ok
         THEN /\ failure' = [kind |-> "rotate", cycle |-> time_count]
              /\ UNCHANGED past_five_mins_ssids
         ELSE /\ past_five_mins_ssids' =
                    _filter_ssids(get_probe_requests_by_time_range(q.rows))
              /\ UNCHANGED failure
    /\ pc' = "sleep"
    /\ UNCHANGED <<init_done, time_count, macVars, five_ten_min_ago_ssids,
                   ten_fifteen_min_ago_ssids, fifteen_twenty_min_ago_ssids,
                   current_devices, emitted, saved, exit_from>>
    /\ UNCHANGED <<envVars, gpsVars, detVars, scoreVars>>

\* time.sleep(check_interval)
Sleep ==
    /\ pc = "sleep"
    /\ pc' = "loop_top"
    /\ saved' = NoSnapshot
    /\ UNCHANGED <<init_done, time_count, macVars, ssidVars, current_devices,
                   emitted, failure, exit_from>>
    /\ UNCHANGED <<envVars, gpsVars, detVars, scoreVars>>

\* signal_handler: SIGINT is handled between two bytecodes of the main
\* thread; sys.exit(0) raises SystemExit there, which no "except Exception"
\* of the loop or of the monitor catches
signal_handler ==
    /\ pc \in LoopPcs
    /\ pc' = "exited"
    /\ exit_from' = pc
    /\ UNCHANGED <<init_done, time_count, macVars, ssidVars, current_devices,
                   emitted, failure, saved>>
    /\ UNCHANGED <<envVars, gpsVars, detVars, scoreVars>>

NextMonitor ==
    \/ InitConnect
    \/ initialize_tracking_lists
    \/ LoopTop
    \/ Connect
    \/ process_current_activity
    \/ CheckRotate
    \/ RotateShift
    \/ RotateMacs
    \/ RotateSsids
    \/ Sleep
    \/ signal_handler

(***************************************************************************)
(* Constructed state of the other two components                           *)
(***************************************************************************)
InitGPS ==
    /\ clock = 0
    /\ locations = << >>
    /\ location_sessions = << >>
    /\ current_location = 0
    /\ call_log = << >>
    /\ attributed = << >>
    /\ across = << >>

InitDet ==
    /\ appearances = << >>
    /\ device_history = [m \in {} |-> << >>]
    /\ history_keys = << >>
    /\ results = << >>

\* no call of _calculate_persistence_score on its own has been made
InitScore ==
    /\ scored_list = << >>
    /\ scored_value = << >>
    /\ scored_before = << >>

Init == InitMon /\ InitGPS /\ InitDet /\ InitScore

SpecMonitor == Init /\ [][NextMonitor]_vars

(***************************************************************************)
(* The monitoring loop on a source that has gone silent: the tracking      *)
(* lists hold what an initialization can have put into them, every query   *)
(* made from now on returns no row (or fails), and the lists are rotated   *)
(* every list_update_interval cycles.                                      *)
(***************************************************************************)
TrackedMacs == _filter_macs(get_mac_addresses_by_time_range(DeviceRows))
TrackedSsids == _filter_ssids(get_probe_requests_by_time_range(DeviceRows))

InitRotate ==
    /\ table = {}
    /\ list_update_interval \in 1..ListUpdateInterval
    /\ pc = "loop_top"
    /\ init_done = 8
    /\ time_count = 0
    /\ past_five_mins_macs \in SUBSET TrackedMacs
    /\ five_ten_min_ago_macs \in SUBSET TrackedMacs
    /\ ten_fifteen_min_ago_macs \in SUBSET TrackedMacs
    /\ fifteen_twenty_min_ago_macs \in SUBSET TrackedMacs
    /\ past_five_mins_ssids \in SUBSET TrackedSsids
    /\ five_ten_min_ago_ssids \in SUBSET TrackedSsids
    /\ ten_fifteen_min_ago_ssids \in SUBSET TrackedSsids
    /\ fifteen_twenty_min_ago_ssids \in SUBSET TrackedSsids
    /\ origin = Buckets
    /\ current_devices = {}
    /\ emitted = {}
    /\ failure = [kind |-> "none", cycle |-> 0]
    /\ saved = NoSnapshot
    /\ exit_from = "none"
    /\ InitGPS /\ InitDet /\ InitScore

NextRotate ==
    \/ LoopTop
    \/ Connect
    \/ process_current_activity
    \/ CheckRotate
    \/ RotateShift
    \/ RotateMacs
    \/ RotateSsids
    \/ Sleep
    \/ signal_handler

SpecRotate == InitRotate /\ [][NextRotate]_vars

(***************************************************************************)
(* GPSTracker.  Readings lie on one meridian; a latitude is an integer     *)
(* number of 0.0001 degree steps, so that the four-decimal coordinate name *)
(* of a reading is exact and the haversine distance of two readings is     *)
(* R * |delta latitude in radians| = 11.1195 m per step.                   *)
(***************************************************************************)
MaxReadings == 3
MaxClock == 1202

location_threshold == 100
session_timeout == 600

Latitudes == {0, 6, 10}
LocationNames == {"", "my home"}
Devices == {"d1", "d2"}
ClockSteps == {600, 601}

Abs(n) == IF n < 0 THEN -n ELSE n

\* float("nan") as a coordinate: arithmetic on it gives nan, it is formatted
\* as "nan", and every comparison with it is false
NaN == -1000000

\* _calculate_distance, in millimetres
_calculate_distance(lat1, lat2) ==
    IF lat1 = NaN \/ lat2 = NaN THEN NaN
    ELSE (Abs(lat2 - lat1) * 111195) \div 10

\* distance <= self.location_threshold
WithinThreshold(distance) ==
    distance # NaN /\ distance <= location_threshold * 1000

\* f"{location.latitude:.4f}"
FormatLatitude(latitude) ==
    IF latitude = NaN THEN "nan" ELSE ToString(latitude)

\* location_name.replace(' ', '_')
ReplaceSpaces(name) ==
    CASE name = "my home" -> "my_home"
      [] OTHER -> name

RECURSIVE FirstWithin(_, _, _)
\* index of the first session within the threshold of the reading, 0 if none
FirstWithin(sessions, lat, i) ==
    IF i > Len(sessions) THEN 0
    ELSE IF WithinThreshold(_calculate_distance(lat, sessions[i].location.latitude))
         THEN i
         ELSE FirstWithin(sessions, lat, i + 1)

\* the identifier is used as generated, without the uniqueness loop
MakeUnique_unchecked(base_name, location_id, counter, existing_ids) ==
    location_id

RECURSIVE MakeUnique(_, _, _, _)
\* the "while location_id in existing_ids" loop
MakeUnique(base_name, location_id, counter, existing_ids) ==
    IF location_id \in existing_ids
    THEN MakeUnique(base_name, base_name \o "_" \o ToString(counter),
                    counter + 1, existing_ids)
    ELSE location_id

_get_location_cluster_id(sessions, location) ==
    LET i == FirstWithin(sessions, location.latitude, 1)
        base_name == IF location.location_name # ""
                     THEN ReplaceSpaces(location.location_name)
                     ELSE "loc_" \o FormatLatitude(location.latitude)
        existing_ids == {sessions[j].session_id : j \in 1..Len(sessions)}
    IN  IF i # 0 THEN sessions[i].session_id
        ELSE MakeUnique(base_name, base_name, 1, existing_ids)

RECURSIVE FirstContinuing_strict(_, _, _, _)
\* the continuation test excludes a gap of exactly the timeout
FirstContinuing_strict(sessions, location_id, now, i) ==
    IF i > Len(sessions) THEN 0
    ELSE IF /\ sessions[i].session_id = location_id
            /\ now - sessions[i].end_time < session_timeout
         THEN i
         ELSE FirstContinuing_strict(sessions, location_id, now, i + 1)

RECURSIVE FirstContinuing_any(_, _, _, _)
\* a session carrying the identifier continues however long ago it ended
FirstContinuing_any(sessions, location_id, now, i) ==
    IF i > Len(sessions) THEN 0
    ELSE IF sessions[i].session_id = location_id
         THEN i
         ELSE FirstContinuing_any(sessions, location_id, now, i + 1)

RECURSIVE FirstContinuing(_, _, _, _)
\* index of the first session carrying the identifier that has not timed
\* out, 0 if none
FirstContinuing(sessions, location_id, now, i) ==
    IF i > Len(sessions) THEN 0
    ELSE IF /\ sessions[i].session_id = location_id
            /\ now - sessions[i].end_time <= session_timeout
         THEN i
         ELSE FirstContinuing(sessions, location_id, now, i + 1)

\* a continued session is extended but not made current
_update_current_session_extends_only(sessions, location, location_id, now) ==
    LET i == FirstContinuing(sessions, location_id, now, 1)
    IN  IF i # 0
        THEN [sessions |-> [sessions EXCEPT ![i].end_time = now],
              current  |-> current_location]
        ELSE [sessions |-> Append(sessions,
                              [location     |-> location,
                               start_time   |-> now,
                               end_time     |-> now,
                               devices_seen |-> << >>,
                               session_id   |-> location_id]),
              current  |-> Len(sessions) + 1]

\* _update_current_session: the new session list and the current session
_update_current_session(sessions, location, location_id, now) ==
    LET i == FirstContinuing(sessions, location_id, now, 1)
    IN  IF i # 0
        THEN [sessions |-> [sessions EXCEPT ![i].end_time = now],
              current  |-> i]
        ELSE [sessions |-> Append(sessions,
                              [location     |-> location,
                               start_time   |-> now,
                               end_time     |-> now,
                               devices_seen |-> << >>,
                               session_id   |-> location_id]),
              current  |-> Len(sessions) + 1]

add_gps_reading(latitude, location_name) ==
    /\ Len(locations) < MaxReadings
    /\ LET location == [latitude |-> latitude, timestamp |-> clock,
                        location_name |-> location_name]
           location_id == _get_location_cluster_id(location_sessions, location)
           upd == _update_current_session(location_sessions, location,
                                          location_id, clock)
       IN  /\ locations' = Append(locations, location)
           /\ location_sessions' = upd.sessions
           /\ current_location' = upd.current
           /\ call_log' = Append(call_log,
                                 [returned |-> location_id,
                                  sessions_before |-> Len(location_sessions)])
    /\ attributed' = << >>
    /\ UNCHANGED clock
    /\ UNCHANGED <<across, envVars, monVars, detVars, scoreVars>>

InSeq(x, seq) == \E i \in 1..Len(seq) : seq[i] = x

\* None
NoValue == << >>

\* the current session is used without testing that there is one: on a
\* tracker without a session the attribute access raises
add_device_at_current_location_unguarded(mac) ==
    /\ IF current_location = 0
       THEN /\ UNCHANGED location_sessions
            /\ attributed' = <<<<"raised", "AttributeError">>>>
       ELSE /\ IF InSeq(mac, location_sessions[current_location].devices_seen)
               THEN UNCHANGED location_sessions
               ELSE location_sessions' =
                      [location_sessions EXCEPT ![current_location].devices_seen =
                           Append(@, mac)]
            /\ attributed' =
                  <<<<location_sessions[current_location].session_id>>>>
    /\ UNCHANGED <<clock, locations, current_location, call_log>>
    /\ UNCHANGED <<across, envVars, monVars, detVars, scoreVars>>

\* the device is added to the newest session, current or not
add_device_at_current_location_newest(mac) ==
    /\ IF current_location = 0
       THEN /\ UNCHANGED location_sessions
            /\ attributed' = <<NoValue>>
       ELSE /\ IF InSeq(mac, location_sessions[Len(location_sessions)].devices_seen)
               THEN UNCHANGED location_sessions
               ELSE location_sessions' =
                      [location_sessions EXCEPT ![Len(location_sessions)].devices_seen =
                           Append(@, mac)]
            /\ attributed' =
                  <<<<location_sessions[current_location].session_id>>>>
    /\ UNCHANGED <<clock, locations, current_location, call_log>>
    /\ UNCHANGED <<across, envVars, monVars, detVars, scoreVars>>

add_device_at_current_location(mac) ==
    /\ IF current_location = 0
       THEN /\ UNCHANGED location_sessions
            /\ attributed' = <<NoValue>>
       ELSE /\ IF InSeq(mac, location_sessions[current_location].devices_seen)
               THEN UNCHANGED location_sessions
               ELSE location_sessions' =
                      [location_sessions EXCEPT ![current_location].devices_seen =
                           Append(@, mac)]
            /\ attributed' =
                  <<<<location_sessions[current_location].session_id>>>>
    /\ UNCHANGED <<clock, locations, current_location, call_log>>
    /\ UNCHANGED <<across, envVars, monVars, detVars, scoreVars>>

\* time passes between two calls
Tick(d) ==
    /\ clock + d <= MaxClock
    /\ clock' = clock + d
    /\ attributed' = << >>
    /\ UNCHANGED <<locations, location_sessions, current_location, call_log>>
    /\ UNCHANGED <<across, envVars, monVars, detVars, scoreVars>>

NextGPS ==
    \/ \E lat \in Latitudes, name \in LocationNames : add_gps_reading(lat, name)
    \/ \E mac \in Devices : add_device_at_current_location(mac)
    \/ \E d \in ClockSteps : Tick(d)

SpecGPS == Init /\ [][NextGPS]_vars

(***************************************************************************)
(* get_devices_across_locations.  The dictionary built by the two loops    *)
(* maps a device to the identifiers of the sessions that list it, each     *)
(* identifier once, in session order; the devices with more than one       *)
(* identifier are returned.                                                *)
(***************************************************************************)
RECURSIVE SessionIdsOf_every(_, _, _)
RECURSIVE SessionIdsOf(_, _, _)
\* the identifier of every session listing the device is appended, seen
\* before or not
SessionIdsOf_every(sessions, mac, i) ==
    IF i = 0 THEN << >>
    ELSE LET before == SessionIdsOf_every(sessions, mac, i - 1)
         IN  IF InSeq(mac, sessions[i].devices_seen)
             THEN Append(before, sessions[i].session_id)
             ELSE before

\* device_locations[mac] after the loops have run over sessions[1..i]
SessionIdsOf(sessions, mac, i) ==
    IF i = 0 THEN << >>
    ELSE LET before == SessionIdsOf(sessions, mac, i - 1)
         IN  IF /\ InSeq(mac, sessions[i].devices_seen)
                /\ ~InSeq(sessions[i].session_id, before)
             THEN Append(before, sessions[i].session_id)
             ELSE before

multi_location_devices(sessions) ==
    LET seen == UNION {{sessions[i].devices_seen[j] :
                           j \in 1..Len(sessions[i].devices_seen)} :
                       i \in 1..Len(sessions)}
    IN  [mac \in {m \in seen : Len(SessionIdsOf(sessions, m, Len(sessions))) > 1}
            |-> SessionIdsOf(sessions, mac, Len(sessions))]

get_devices_across_locations ==
    /\ across' = <<multi_location_devices(location_sessions)>>
    /\ UNCHANGED <<clock, locations, location_sessions, current_location,
                   call_log, attributed>>
    /\ UNCHANGED <<envVars, monVars, detVars, scoreVars>>

\* unnamed readings at two points further apart than the threshold, made
\* right away or after the session timeout has passed
NextAcross ==
    \/ \E lat \in {0, 10} : add_gps_reading(lat, "")
    \/ \E mac \in Devices : add_device_at_current_location(mac)
    \/ Tick(session_timeout + 1)
    \/ get_devices_across_locations

SpecAcross == Init /\ [][NextAcross]_vars

(***************************************************************************)
(* SurveillanceDetector.  An appearance carries the fields the scoring     *)
(* reads (mac, timestamp, location_id).  Scores are exact fractions        *)
(* [num, den] with den > 0.                                                *)
(***************************************************************************)
MaxAppearances == 4
MaxAnalyze == 2

Macs == {"m1", "m2"}
Timestamps == {0, 3600, 14400}
LocationIds == {"home", "work"}

min_appearances == 3
SecondsPerHour == 3600

SetMax(S) == CHOOSE x \in S : \A y \in S : y <= x
SetMin(S) == CHOOSE x \in S : \A y \in S : x <= y

TimestampsOf(apps) == {apps[i].timestamp : i \in 1..Len(apps)}
LocationsOf(apps) == {apps[i].location_id : i \in 1..Len(apps)}

RECURSIVE GCD(_, _)
GCD(a, b) == IF b = 0 THEN a ELSE GCD(b, a % b)

\* a score is kept in lowest terms
Frac(n, d) == [num |-> n \div GCD(n, d), den |-> d \div GCD(n, d)]
FracLess(a, b) == a.num * b.den < b.num * a.den
FracEq(a, b) == a.num * b.den = b.num * a.den
\* the first argument, whatever the second
FracMin_uncapped(a, b) == a

FracMin(a, b) == IF FracLess(b, a) THEN b ELSE a
FracAdd(a, b) == Frac(a.num * b.den + b.num * a.den, a.den * b.den)

\* the span is taken between the last and the first record of the list
time_span_first_last(apps) ==
    apps[Len(apps)].timestamp - apps[1].timestamp

\* max(timestamps) - min(timestamps), in seconds
time_span(apps) == SetMax(TimestampsOf(apps)) - SetMin(TimestampsOf(apps))

\* f"{time_span_hours:.1f}": the span in tenths of an hour, rounded (the
\* timestamps drawn are multiples of 1800 s, so no span lies half way
\* between two tenths)
HoursToOneDecimal(span) == (span + 180) \div 360

NoScore == [score |-> Frac(0, 1), reasons |-> << >>]

\* the bonus is a fifth
location_bonus_fifth == Frac(1, 5)

\* score + 0.3
location_bonus == Frac(3, 10)

\* lines 114-130: the rate test, the base score and the location bonus
ScoreOfRate(apps, span) ==
    \* appearance_rate = len / (span / 3600)
    LET appearance_rate == Frac(Len(apps) * SecondsPerHour, span)
        base == FracMin(Frac(appearance_rate.num, 2 * appearance_rate.den),
                        Frac(1, 1))
        appeared == [text |-> "Appeared", n |-> Len(apps),
                     tenths |-> HoursToOneDecimal(span)]
        unique_locations == Cardinality(LocationsOf(apps))
    IN  IF ~FracLess(appearance_rate, Frac(1, 2))
        THEN IF unique_locations > 1
             THEN [score |-> FracMin(FracAdd(base, location_bonus), Frac(1, 1)),
                   reasons |-> <<appeared,
                                 [text |-> "Followed", n |-> unique_locations,
                                  tenths |-> 0]>>]
             ELSE [score |-> base, reasons |-> <<appeared>>]
        ELSE NoScore

\* the span is tested against half an hour
ScoreOfSpan_half_hour(apps) ==
    LET span == time_span(apps) IN
    IF 2 * span < SecondsPerHour THEN NoScore ELSE ScoreOfRate(apps, span)

\* lines 106-112: devices that only appeared briefly are skipped
ScoreOfSpan(apps) ==
    LET span == time_span(apps) IN
    IF span < SecondsPerHour THEN NoScore ELSE ScoreOfRate(apps, span)

\* two appearances are enough
_calculate_persistence_score_two(apps) ==
    IF Len(apps) < 2 THEN NoScore ELSE ScoreOfSpan(apps)

_calculate_persistence_score(apps) ==
    IF Len(apps) < 3 THEN NoScore ELSE ScoreOfSpan(apps)

\* a quarter is the threshold
min_persistence_score_quarter == Frac(1, 4)

min_persistence_score == Frac(1, 2)

\* The SuspiciousDevice built for a device.  Its appearances field is the
\* list object held in device_history, not a copy: it is kept as a
\* reference to that list.
SuspiciousDevice(mac, apps) ==
    LET scored == _calculate_persistence_score(apps) IN
    [mac               |-> mac,
     persistence_score |-> scored.score,
     appearances       |-> [list_of |-> mac],
     reasons           |-> scored.reasons,
     first_seen        |-> SetMin(TimestampsOf(apps)),
     last_seen         |-> SetMax(TimestampsOf(apps)),
     total_appearances |-> Len(apps),
     locations_seen    |-> LocationsOf(apps)]

\* the list a SuspiciousDevice's appearances field refers to
Deref(ref) == device_history[ref.list_of]

\* the entry is put at the end
InsertByScore_unsorted(sorted, d) == Append(sorted, d)

\* an entry goes ahead of the entries with the same score
InsertByScore_ahead_of_ties(sorted, d) ==
    LET k == Cardinality({i \in 1..Len(sorted) :
                 FracLess(d.persistence_score, sorted[i].persistence_score)})
    IN  SubSeq(sorted, 1, k) \o <<d>> \o SubSeq(sorted, k + 1, Len(sorted))

\* list.sort(key=persistence_score, reverse=True) is stable: an entry goes
\* behind every entry whose score is not smaller
InsertByScore(sorted, d) ==
    LET k == Cardinality({i \in 1..Len(sorted) :
                 ~FracLess(sorted[i].persistence_score, d.persistence_score)})
    IN  SubSeq(sorted, 1, k) \o <<d>> \o SubSeq(sorted, k + 1, Len(sorted))

RECURSIVE SortByScore(_)
SortByScore(devices) ==
    IF devices = << >> THEN << >>
    ELSE InsertByScore(SortByScore(SubSeq(devices, 1, Len(devices) - 1)),
                       devices[Len(devices)])

RECURSIVE Flagged(_, _, _)
\* the loop over device_history.items(), in key insertion order
Flagged(history, keys, i) ==
    IF i > Len(keys) THEN << >>
    ELSE LET mac == keys[i]
             apps == history[mac]
         IN  IF Len(apps) < min_appearances
             THEN Flagged(history, keys, i + 1)
             ELSE IF FracLess(min_persistence_score,
                              _calculate_persistence_score(apps).score)
                  THEN <<SuspiciousDevice(mac, apps)>>
                           \o Flagged(history, keys, i + 1)
                  ELSE Flagged(history, keys, i + 1)

\* an appearance the device's history already holds is not added to it again
add_device_appearance_once(mac, timestamp, location_id) ==
    /\ Len(appearances) < MaxAppearances
    /\ LET appearance == [mac |-> mac, timestamp |-> timestamp,
                          location_id |-> location_id]
       IN  /\ appearances' = Append(appearances, appearance)
           /\ IF mac \in DOMAIN device_history
              THEN /\ device_history' =
                        [device_history EXCEPT ![mac] =
                            IF \E i \in 1..Len(@) : @[i] = appearance
                            THEN @ ELSE Append(@, appearance)]
                   /\ UNCHANGED history_keys
              ELSE /\ device_history' =
                        [m \in DOMAIN device_history \cup {mac} |->
                            IF m = mac THEN <<appearance>>
                                       ELSE device_history[m]]
                   /\ history_keys' = Append(history_keys, mac)
    /\ UNCHANGED results
    /\ UNCHANGED <<envVars, monVars, gpsVars, scoreVars>>

add_device_appearance(mac, timestamp, location_id) ==
    /\ Len(appearances) < MaxAppearances
    /\ LET appearance == [mac |-> mac, timestamp |-> timestamp,
                          location_id |-> location_id]
       IN  /\ appearances' = Append(appearances, appearance)
           /\ IF mac \in DOMAIN device_history
              THEN /\ device_history' =
                        [device_history EXCEPT ![mac] = Append(@, appearance)]
                   /\ UNCHANGED history_keys
              ELSE /\ device_history' =
                        [m \in DOMAIN device_history \cup {mac} |->
                            IF m = mac THEN <<appearance>>
                                       ELSE device_history[m]]
                   /\ history_keys' = Append(history_keys, mac)
    /\ UNCHANGED results
    /\ UNCHANGED <<envVars, monVars, gpsVars, scoreVars>>

analyze_surveillance_patterns ==
    /\ Len(results) < MaxAnalyze
    /\ results' = Append(results,
                         SortByScore(Flagged(device_history, history_keys, 1)))
    /\ UNCHANGED <<appearances, device_history, history_keys>>
    /\ UNCHANGED <<envVars, monVars, gpsVars, scoreVars>>

NextDetector ==
    \/ \E mac \in Macs, ts \in Timestamps, loc \in LocationIds :
          add_device_appearance(mac, ts, loc)
    \/ analyze_surveillance_patterns

SpecDetector == Init /\ [][NextDetector]_vars

(***************************************************************************)
(* Ingestion of input that is not well formed: a reading whose latitude is *)
(* not a finite number, a sighting whose device identifier is empty.       *)
(***************************************************************************)
NextIngest ==
    \/ \E lat \in {0, NaN}, name \in LocationNames : add_gps_reading(lat, name)
    \/ Tick(session_timeout + 1)
    \/ \E mac \in {"", "m1"}, ts \in {0, 3600} :
          add_device_appearance(mac, ts, "home")

SpecIngest == Init /\ [][NextIngest]_vars

(***************************************************************************)
(* _calculate_persistence_score on its own: the list of one device's       *)
(* appearances is drawn, the function is applied to it, then to the same   *)
(* list again, to the list with two records exchanged, or to the list with *)
(* one record given another location.                                      *)
(***************************************************************************)
MaxHistory == 3

\* spans of 0.5, 1, 2, 6, 6.5, 7, 7.5, 8 and 8.5 hours
ScoreTimestamps == {0, 3600, 7200, 28800, 30600}

DeviceAppearance ==
    [mac : {"m1"}, timestamp : ScoreTimestamps, location_id : LocationIds]

Histories == UNION {[1..n -> DeviceAppearance] : n \in 0..MaxHistory}

InitScoreCall ==
    /\ InitMon /\ InitGPS /\ InitDet
    /\ scored_list \in Histories
    /\ scored_value = << >>
    /\ scored_before = << >>

\* the list with the records at i and j exchanged
Exchanged(apps, i, j) ==
    [k \in 1..Len(apps) |-> IF k = i THEN apps[j]
                            ELSE IF k = j THEN apps[i] ELSE apps[k]]

\* the call made before, with how the list of the next call derives from it
CallMade(how) ==
    <<[list |-> scored_list, value |-> scored_value[1], how |-> how]>>

Score ==
    /\ scored_value = << >>
    /\ scored_value' = <<_calculate_persistence_score(scored_list)>>
    /\ UNCHANGED <<scored_list, scored_before>>
    /\ UNCHANGED <<envVars, monVars, gpsVars, detVars>>

ScoreAgain ==
    /\ scored_value # << >>
    /\ scored_before' = CallMade("same")
    /\ scored_value' = <<_calculate_persistence_score(scored_list)>>
    /\ UNCHANGED scored_list
    /\ UNCHANGED <<envVars, monVars, gpsVars, detVars>>

ScoreReordered(i, j) ==
    /\ scored_value # << >>
    /\ scored_before' = CallMade("reordered")
    /\ scored_list' = Exchanged(scored_list, i, j)
    /\ scored_value' = <<_calculate_persistence_score(scored_list')>>
    /\ UNCHANGED <<envVars, monVars, gpsVars, detVars>>

ScoreRelocated(i, location_id) ==
    /\ scored_value # << >>
    /\ location_id # scored_list[i].location_id
    /\ scored_before' = CallMade("relocated")
    /\ scored_list' = [scored_list EXCEPT ![i].location_id = location_id]
    /\ scored_value' = <<_calculate_persistence_score(scored_list')>>
    /\ UNCHANGED <<envVars, monVars, gpsVars, detVars>>

NextScore ==
    \/ Score
    \/ ScoreAgain
    \/ \E i, j \in 1..Len(scored_list) : i < j /\ ScoreReordered(i, j)
    \/ \E i \in 1..Len(scored_list), location_id \in LocationIds :
          ScoreRelocated(i, location_id)

SpecScore == InitScoreCall /\ [][NextScore]_vars

(***************************************************************************)
(* analyze_surveillance_patterns on a detector that has recorded two       *)
(* devices: each device's history is drawn among the lists of              *)
(* min_appearances - 1 and of min_appearances records, the devices were    *)
(* first seen in either order, and no further appearance is recorded.      *)
(***************************************************************************)
RecordedHistories(mac) ==
    UNION {[1..n -> [mac : {mac}, timestamp : Timestamps,
                     location_id : LocationIds]] :
           n \in (min_appearances - 1)..min_appearances}

InitAnalyze ==
    /\ InitMon /\ InitGPS /\ InitScore
    /\ history_keys \in {<<"m1", "m2">>, <<"m2", "m1">>}
    /\ \E h1 \in RecordedHistories("m1"), h2 \in RecordedHistories("m2") :
          device_history = [mac \in {"m1", "m2"} |->
                               IF mac = "m1" THEN h1 ELSE h2]
    /\ appearances = device_history[history_keys[1]]
                        \o device_history[history_keys[2]]
    /\ results = << >>

NextAnalyze == analyze_surveillance_patterns

SpecAnalyze == InitAnalyze /\ [][NextAnalyze]_vars

(***************************************************************************)
(* C1.  Bucket replacement is atomic per call: when a source query made by *)
(* rotate_tracking_lists or initialize_tracking_lists fails, all eight     *)
(* buckets hold exactly what they held before the call.                    *)
(***************************************************************************)
CallEndedInFailure ==
    \/ pc = "sleep" /\ failure = [kind |-> "rotate", cycle |-> time_count]
    \/ pc = "exit_fatal" /\ failure.kind = "initialize"

CE_C1 == CallEndedInFailure => Buckets = saved

(***************************************************************************)
(* C3.  For every active record whose identifier is not ignored and every  *)
(* window W, ProcessCycle emits a reappearance message naming W exactly    *)
(* when the identifier was placed in bucket W, whatever its letter case.   *)
(***************************************************************************)
MacBucketOf(w) ==
    CASE w = "5 to 10"  -> five_ten_min_ago_macs
      [] w = "10 to 15" -> ten_fifteen_min_ago_macs
      [] w = "15 to 20" -> fifteen_twenty_min_ago_macs

ProcessReturned ==
    /\ pc = "check_rotate"
    /\ failure # [kind |-> "process", cycle |-> time_count]

CE_C3 ==
    ProcessReturned =>
        \A d \in current_devices : \A w \in Windows :
            (d.devmac # "" /\ Upper(d.devmac) \notin ignore_list) =>
                ( [kind |-> "mac", id |-> d.devmac, window |-> w] \in emitted
                  <=> Upper(d.devmac) \in MacBucketOf(w) )

(***************************************************************************)
(* C4.  A SIGINT that arrives while a cycle is in flight lets the cycle's  *)
(* ProcessCycle and Rotate run to completion: the process exits only at a  *)
(* cycle boundary, never between Rotate's shift and its refresh.           *)
(***************************************************************************)
CE_C4 ==
    pc = "exited" =>
        /\ exit_from \in {"loop_top", "sleep"}
        /\ exit_from \notin {"rotate_macs", "rotate_ssids"}

(***************************************************************************)
(* C5.  After initialization, no failure of the source ends the loop: a    *)
(* step of the loop leaves it only through the signal handler, and every   *)
(* step that logs a failure continues on the path to the next cycle.       *)
(***************************************************************************)
LoopStepContinues ==
    pc \in LoopPcs =>
        /\ pc' \in LoopPcs \cup {"exited"}
        /\ (pc' = "exited" => exit_from' = pc /\ failure' = failure)
        /\ (failure' # failure =>
               pc' \in {"loop_top", "check_rotate", "sleep"})

Thm_C5 == [][LoopStepContinues]_vars

\* a cycle is running after an earlier cycle failed
Wit_C5 ==
    /\ pc = "process"
    /\ failure.kind \in {"connect", "process", "rotate"}
    /\ failure.cycle < time_count

(***************************************************************************)
(* C2.  No two sessions in the session list carry the same session         *)
(* identifier, after any sequence of add_gps_reading calls.                *)
(***************************************************************************)
CE_C2 ==
    \A i, j \in 1..Len(location_sessions) :
        i # j => location_sessions[i].session_id # location_sessions[j].session_id

(***************************************************************************)
(* C6.  add_device_at_current_location adds a device to a session only if  *)
(* the session's end time is at most session_timeout before the time of    *)
(* the attribution.                                                        *)
(***************************************************************************)
AttributionIsFresh ==
    \A i \in 1..Len(location_sessions) :
        (/\ Len(location_sessions') = Len(location_sessions)
         /\ location_sessions'[i].devices_seen # location_sessions[i].devices_seen)
            => clock - location_sessions[i].end_time <= session_timeout

CE_C6 == [][AttributionIsFresh]_vars

(***************************************************************************)
(* Readings and what the calls returned, by call number                    *)
(***************************************************************************)
Far(i, j) ==
    _calculate_distance(locations[i].latitude, locations[j].latitude)
        > location_threshold * 1000

\* reading i was further than the threshold from every session that
\* existed before call k
AwayFromSessionsBefore(i, k) ==
    FirstWithin(SubSeq(location_sessions, 1, call_log[k].sessions_before),
                locations[i].latitude, 1) = 0

SessionsAfter(k) ==
    IF k = Len(call_log) THEN Len(location_sessions)
                         ELSE call_log[k + 1].sessions_before

(***************************************************************************)
(* C7.  Two add_gps_reading calls whose points are further apart than the  *)
(* location threshold return different session identifiers, from any       *)
(* reachable state.                                                        *)
(***************************************************************************)
CE_C7 ==
    \A i, j \in 1..Len(call_log) :
        (i < j /\ Far(i, j)) => call_log[i].returned # call_log[j].returned

\* C7 as amended: two consecutive calls whose points are further apart
\* than the threshold return different identifiers when the first point
\* was further than the threshold from every session existing before it
Thm_C7 ==
    \A i \in 1..(Len(call_log) - 1) :
        (AwayFromSessionsBefore(i, i) /\ Far(i, i + 1))
            => call_log[i].returned # call_log[i + 1].returned

\* both far-apart readings carry the same label, so the second identifier
\* is made unique by a suffix
Wit_C7 ==
    \E i \in 1..(Len(call_log) - 1) :
        /\ AwayFromSessionsBefore(i, i) /\ Far(i, i + 1)
        /\ locations[i].location_name = "my home"
        /\ locations[i + 1].location_name = "my home"
        /\ call_log[i + 1].returned = "my_home_1"

(***************************************************************************)
(* C8.  Two consecutive add_gps_reading calls whose points are within the  *)
(* threshold of each other and whose timestamps are within the session     *)
(* timeout collapse into one session: the second call creates no session   *)
(* and returns the same session as the first.                              *)
(***************************************************************************)
CloseInSpaceAndTime(i) ==
    /\ ~Far(i, i + 1)
    /\ locations[i + 1].timestamp - locations[i].timestamp <= session_timeout

Collapsed(i) ==
    /\ call_log[i + 1].returned = call_log[i].returned
    /\ SessionsAfter(i + 1) = call_log[i + 1].sessions_before

CE_C8 ==
    \A i \in 1..(Len(call_log) - 1) : CloseInSpaceAndTime(i) => Collapsed(i)

\* C8 as amended: the two calls collapse into one session when both points
\* were further than the threshold from every session existing before the
\* first call
Thm_C8 ==
    \A i \in 1..(Len(call_log) - 1) :
        (/\ CloseInSpaceAndTime(i)
         /\ AwayFromSessionsBefore(i, i)
         /\ AwayFromSessionsBefore(i + 1, i))
            => Collapsed(i)

\* two different points read exactly the timeout apart: the first opens a
\* session, the second joins it
Wit_C8 ==
    \E i \in 1..(Len(call_log) - 1) :
        /\ CloseInSpaceAndTime(i)
        /\ AwayFromSessionsBefore(i, i)
        /\ AwayFromSessionsBefore(i + 1, i)
        /\ locations[i].latitude # locations[i + 1].latitude
        /\ locations[i + 1].timestamp - locations[i].timestamp = session_timeout
        /\ Collapsed(i)

(***************************************************************************)
(* C9.  The Analyze result only grows: every device in the result of one   *)
(* analyze call is in the result of every later analyze call.              *)
(***************************************************************************)
MacsIn(result) == {result[k].mac : k \in 1..Len(result)}

CE_C10 ==
    \A i \in 1..Len(results) : \A k \in 1..Len(results[i]) :
        Len(Deref(results[i][k].appearances)) = results[i][k].total_appearances

(***************************************************************************)
(* Notions the claims on the persistence score are stated with: the span   *)
(* of a list in seconds, "qualifying" (at least 3 records, a span of at    *)
(* least one hour, at least one record per two hours), and the comparison  *)
(* of a score with old + 0.3 capped at 1.0.                                *)
(***************************************************************************)
SpanOf(apps) == SetMax(TimestampsOf(apps)) - SetMin(TimestampsOf(apps))

Qualifies(apps) ==
    /\ Len(apps) >= 3
    /\ SpanOf(apps) >= 3600
    /\ 2 * Len(apps) * 3600 >= SpanOf(apps)

IsOldPlusBonusCapped(new, old) ==
    IF 10 * old.num + 3 * old.den >= 10 * old.den
    THEN new.num = new.den
    ELSE new.num * 10 * old.den = (10 * old.num + 3 * old.den) * new.den

FollowedAcross(k) == [text |-> "Followed", n |-> k, tenths |-> 0]

\* the call just made scored a qualifying single-location list of the call
\* before with one record moved to a second location
SecondLocationGiven ==
    /\ scored_before # << >>
    /\ scored_before[1].how = "relocated"
    /\ Qualifies(scored_before[1].list)
    /\ Cardinality(LocationsOf(scored_before[1].list)) = 1
    /\ Cardinality(LocationsOf(scored_list)) = 2

(***************************************************************************)
(* C11 as stated.  Giving a qualifying single-location history a second    *)
(* location strictly increases the score, to the old score plus 0.3 capped *)
(* at 1.0, and appends the reason "Followed across 2 different locations". *)
(* Violated: a single-location score of 1.0 stays 1.0.                     *)
(***************************************************************************)
CE_C11 ==
    SecondLocationGiven =>
        /\ FracLess(scored_before[1].value.score, scored_value[1].score)
        /\ IsOldPlusBonusCapped(scored_value[1].score,
                                scored_before[1].value.score)
        /\ scored_value[1].reasons =
             Append(scored_before[1].value.reasons, FollowedAcross(2))

(***************************************************************************)
(* C11, amended.  Giving a qualifying single-location history a second     *)
(* location makes the score min(old + 0.3, 1.0), which is strictly larger  *)
(* than the old score exactly when the old score is below 1.0, and appends *)
(* the reason "Followed across 2 different locations".                     *)
(***************************************************************************)
Thm_C11 ==
    SecondLocationGiven =>
        /\ IsOldPlusBonusCapped(scored_value[1].score,
                                scored_before[1].value.score)
        /\ FracLess(scored_before[1].value.score, scored_value[1].score)
             <=> FracLess(scored_before[1].value.score, Frac(1, 1))
        /\ scored_value[1].reasons =
             Append(scored_before[1].value.reasons, FollowedAcross(2))

\* a score of 0.25 has become 0.55
Wit_C11 ==
    /\ SecondLocationGiven
    /\ FracEq(scored_before[1].value.score, Frac(1, 4))
    /\ FracEq(scored_value[1].score, Frac(11, 20))

(***************************************************************************)
(* C12.  Every list with fewer than 3 records is scored 0 with no reasons. *)
(***************************************************************************)
Thm_C12 ==
    (scored_value # << >> /\ Len(scored_list) < 3) =>
        /\ scored_value[1].score.num = 0
        /\ scored_value[1].reasons = << >>

\* two records an hour or more apart have been scored
Wit_C12 ==
    /\ scored_value # << >>
    /\ Len(scored_list) = 2
    /\ SpanOf(scored_list) >= 3600
    /\ scored_value[1].score.num = 0

(***************************************************************************)
(* C13.  Every list whose timestamps span less than 3600 seconds is scored *)
(* 0 with no reasons, however many records and locations it has.           *)
(***************************************************************************)
Thm_C13 ==
    (scored_value # << >> /\ Len(scored_list) > 0
                          /\ SpanOf(scored_list) < 3600) =>
        /\ scored_value[1].score.num = 0
        /\ scored_value[1].reasons = << >>

\* three records at two locations within half an hour have been scored
Wit_C13 ==
    /\ scored_value # << >>
    /\ Len(scored_list) >= 3
    /\ Cardinality(LocationsOf(scored_list)) = 2
    /\ SpanOf(scored_list) = 1800
    /\ scored_value[1].score.num = 0

(***************************************************************************)
(* C14.  A list of n >= 3 records at one location spanning s >= 3600       *)
(* seconds, with rate n / (s / 3600): when the rate is below 0.5 the score *)
(* is 0 with no reasons, otherwise the score is min(rate / 2, 1.0) and the *)
(* reasons are exactly "Appeared n times over H hours", H being s / 3600   *)
(* to one decimal.                                                         *)
(***************************************************************************)
Thm_C14 ==
    (/\ scored_value # << >>
     /\ Len(scored_list) >= 3
     /\ SpanOf(scored_list) >= 3600
     /\ Cardinality(LocationsOf(scored_list)) = 1) =>
        LET n == Len(scored_list)
            s == SpanOf(scored_list)
            score == scored_value[1].score
        IN  IF 2 * n * 3600 < s
            THEN /\ score.num = 0
                 /\ scored_value[1].reasons = << >>
            ELSE /\ IF n * 3600 >= 2 * s
                    THEN score.num = score.den
                    ELSE score.num * 2 * s = n * 3600 * score.den
                 /\ scored_value[1].reasons =
                      <<[text |-> "Appeared", n |-> n,
                         tenths |-> (s + 180) \div 360]>>

\* three records over six hours at one location have been scored 0.25
Wit_C14 ==
    /\ scored_value # << >>
    /\ Len(scored_list) = 3
    /\ SpanOf(scored_list) = 21600
    /\ Cardinality(LocationsOf(scored_list)) = 1
    /\ scored_value[1].score = [num |-> 1, den |-> 4]
    /\ Len(scored_value[1].reasons) = 1

(***************************************************************************)
(* C15.  The value returned for a list is returned for the same list       *)
(* again and for the list with two of its records exchanged (and so for    *)
(* every permutation of it): same score, same reasons.                     *)
(***************************************************************************)
Thm_C15 ==
    (scored_before # << >> /\ scored_before[1].how \in {"same", "reordered"})
        => scored_value[1] = scored_before[1].value

\* a scored list whose first and last record are less than an hour apart
\* has been reordered so that they are more than an hour apart
Wit_C15 ==
    /\ scored_before # << >>
    /\ scored_before[1].how = "reordered"
    /\ scored_value[1].score.num > 0
    /\ LET before == scored_before[1].list
       IN  /\ before[Len(before)].timestamp - before[1].timestamp < 3600
           /\ scored_list[Len(scored_list)].timestamp
                - scored_list[1].timestamp >= 3600

\* the devices a returned list names
ReturnedMacs(result) == {result[i].mac : i \in 1..Len(result)}

(***************************************************************************)
(* C16.  Every list returned by analyze_surveillance_patterns names, once  *)
(* each, exactly the devices whose history has at least 3 records and is   *)
(* scored above 0.5.                                                       *)
(***************************************************************************)
Thm_C16 ==
    \A k \in 1..Len(results) :
        /\ ReturnedMacs(results[k]) =
             {mac \in DOMAIN device_history :
                 /\ Len(device_history[mac]) >= 3
                 /\ FracLess([num |-> 1, den |-> 2],
                        _calculate_persistence_score(device_history[mac]).score)}
        /\ Cardinality(ReturnedMacs(results[k])) = Len(results[k])

\* one device was returned and the other, with 3 records scored exactly
\* 0.5, was not
Wit_C16 ==
    /\ results # << >>
    /\ ReturnedMacs(results[1]) = {"m1"}
    /\ Len(device_history["m2"]) = 3
    /\ _calculate_persistence_score(device_history["m2"]).score
          = [num |-> 1, den |-> 2]

(***************************************************************************)
(* C17.  Every list returned by analyze_surveillance_patterns is sorted by *)
(* score, highest first: no entry has a smaller score than the next one.   *)
(***************************************************************************)
Thm_C17 ==
    \A k \in 1..Len(results) :
        \A i \in 1..(Len(results[k]) - 1) :
            ~FracLess(results[k][i].persistence_score,
                      results[k][i + 1].persistence_score)

\* two devices were returned, the one first seen later ahead of the other
\* because its score is higher
Wit_C17 ==
    /\ results # << >>
    /\ Len(results[1]) = 2
    /\ results[1][1].mac = history_keys[2]
    /\ FracLess(results[1][2].persistence_score,
                results[1][1].persistence_score)

\* each device's history is the list of the appearances recorded for it, in
\* the order of the calls, and only the devices recorded have a history
HistoryIsRecorded ==
    /\ DOMAIN device_history =
         {appearances[i].mac : i \in 1..Len(appearances)}
    /\ \A mac \in DOMAIN device_history :
          device_history[mac] =
             SelectSeq(appearances, LAMBDA a : a.mac = mac)

\* a step leaves every record of every history in place
HistoryOnlyAppended ==
    \A mac \in DOMAIN device_history :
        /\ mac \in DOMAIN device_history'
        /\ Len(device_history'[mac]) >= Len(device_history[mac])
        /\ SubSeq(device_history'[mac], 1, Len(device_history[mac]))
             = device_history[mac]

(***************************************************************************)
(* C18.  A device's history is exactly the sequence of the appearances     *)
(* recorded for it, in the order recorded, duplicates kept, and no call    *)
(* (add_device_appearance, analyze_surveillance_patterns) removes,         *)
(* reorders or alters a record of it.                                      *)
(***************************************************************************)
Thm_C18 == []HistoryIsRecorded /\ [][HistoryOnlyAppended]_vars

\* the same appearance of m1 has been recorded twice with another one in
\* between, m2 has been recorded as well, and an analysis has been made
Wit_C18 ==
    /\ results # << >>
    /\ "m2" \in DOMAIN device_history
    /\ "m1" \in DOMAIN device_history
    /\ Len(device_history["m1"]) = 3
    /\ device_history["m1"][1] = device_history["m1"][3]
    /\ device_history["m1"][1] # device_history["m1"][2]

\* the number of rotate_tracking_lists calls made, read between two cycles
\* of a loop in which nothing has failed
RotationsDone == time_count \div list_update_interval

\* no call has failed and the program is between the cycle's work and the
\* next cycle's
BetweenCycles == failure.kind = "none" /\ pc \in {"sleep", "loop_top"}

(***************************************************************************)
(* C19.  Each rotate_tracking_lists call moves the contents of the three   *)
(* newer lists of each kind one position toward the oldest.  On a source   *)
(* that returns no data, after k calls the list at position i holds what   *)
(* position i - k held originally (nothing when i <= k), so after 4 calls  *)
(* nothing of the original contents remains.                               *)
(***************************************************************************)
Thm_C19 ==
    /\ (pc = "sleep" /\ saved # NoSnapshot) =>
          \A kind \in 1..2, i \in 2..4 :
              Buckets[kind][i] = saved[kind][i - 1]
    /\ (table = {} /\ origin # NoSnapshot /\ BetweenCycles) =>
          \A kind \in 1..2, i \in 1..4 :
              Buckets[kind][i] = IF i > RotationsDone
                                 THEN origin[kind][i - RotationsDone]
                                 ELSE {}

\* four calls have been made on lists that all held something, and all
\* eight lists are empty
Wit_C19 ==
    /\ table = {} /\ origin # NoSnapshot /\ BetweenCycles
    /\ RotationsDone = 4
    /\ \A kind \in 1..2, i \in 1..4 : origin[kind][i] # {}
    /\ \A kind \in 1..2, i \in 1..4 : Buckets[kind][i] = {}

\* initialize_tracking_lists has just returned, or rotate_tracking_lists has
AtRotationBoundary ==
    \/ pc = "loop_top" /\ time_count = 0
    \/ pc = "sleep" /\ saved # NoSnapshot

(***************************************************************************)
(* C20.  At every rotation boundary (right after initialize_tracking_lists *)
(* and right after each rotate_tracking_lists) the four lists of each kind *)
(* are pairwise disjoint.  Violated: a row returned for two windows, or    *)
(* returned again by the fresh query of a rotation, is in two lists.       *)
(***************************************************************************)
CE_C20 ==
    AtRotationBoundary =>
        \A kind \in 1..2 : \A i, j \in 1..4 :
            i # j => Buckets[kind][i] \cap Buckets[kind][j] = {}

\* a step that is a process_current_activity call leaves the eight lists as
\* they were
ProcessKeepsBuckets ==
    (pc = "process" /\ pc' = "check_rotate") => Buckets' = Buckets

(***************************************************************************)
(* C21.  process_current_activity never rotates or otherwise changes the   *)
(* tracking lists: all eight are the same before and after every call,     *)
(* whether its source query succeeds or fails.                             *)
(***************************************************************************)
Thm_C21 == [][ProcessKeepsBuckets]_vars

\* a call has returned after writing a reappearance message for a device
\* that is not in the newest list
Wit_C21 ==
    /\ pc = "check_rotate"
    /\ \E m \in emitted : m.kind = "mac" /\ Upper(m.id) \notin past_five_mins_macs

\* once a reading has been added a session is current: it carries the
\* identifier the latest add_gps_reading returned, its end time is that
\* reading's time, and no session has a later end time
CurrentIsLastTouched ==
    IF call_log = << >>
    THEN current_location = 0
    ELSE /\ current_location \in 1..Len(location_sessions)
         /\ location_sessions[current_location].session_id
               = call_log[Len(call_log)].returned
         /\ location_sessions[current_location].end_time
               = locations[Len(locations)].timestamp
         /\ \A i \in 1..Len(location_sessions) :
               location_sessions[i].end_time
                  <= location_sessions[current_location].end_time

\* an add_gps_reading step makes current the one session it appended or
\* the one session whose end time it set, and changes no other session
ReadingTouchesCurrent ==
    Len(call_log') > Len(call_log) =>
        /\ \A i \in 1..Len(location_sessions) :
              i # current_location' => location_sessions'[i] = location_sessions[i]
        /\ \/ /\ Len(location_sessions') = Len(location_sessions) + 1
              /\ current_location' = Len(location_sessions')
              /\ location_sessions'[current_location'].start_time = clock
           \/ /\ Len(location_sessions') = Len(location_sessions)
              /\ location_sessions' =
                    [location_sessions EXCEPT ![current_location'].end_time = clock]

(***************************************************************************)
(* C22.  After the first add_gps_reading exactly one session is current    *)
(* and it is the most recently touched one: after every add_gps_reading    *)
(* the current session is the session this reading created or extended,    *)
(* and the identifier returned is that session's identifier.               *)
(***************************************************************************)
Thm_C22 == []CurrentIsLastTouched /\ [][ReadingTouchesCurrent]_vars

\* the third reading went back to the first session while a second one
\* exists: the session made current is not the last of the list
Wit_C22 ==
    /\ Len(call_log) = 3
    /\ Len(location_sessions) = 2
    /\ current_location = 1
    /\ location_sessions[1].end_time > location_sessions[2].end_time

\* the step is the return of an add_device_at_current_location call
AttributionReturns == attributed' # << >> /\ attributed' # attributed

\* a call made while no session is current returns None and leaves the
\* sessions, their device lists and the current session as they were
AttributionWithoutSession ==
    (AttributionReturns /\ current_location = 0) =>
        /\ attributed' = <<NoValue>>
        /\ location_sessions' = location_sessions
        /\ current_location' = current_location
        /\ locations' = locations

(***************************************************************************)
(* C23.  add_device_at_current_location called when no session is current *)
(* (before any add_gps_reading) returns None and changes nothing: the      *)
(* session list, every session's device list and the current session are   *)
(* unchanged, and nothing is raised.                                       *)
(***************************************************************************)
Thm_C23 == [][AttributionWithoutSession]_vars

\* a device was reported ten minutes after start-up, before any reading
Wit_C23 ==
    /\ attributed = <<NoValue>>
    /\ clock >= 600
    /\ current_location = 0
    /\ location_sessions = << >>

\* no device list names a device twice
NoDeviceTwice ==
    \A i \in 1..Len(location_sessions) :
        \A j, k \in 1..Len(location_sessions[i].devices_seen) :
            j # k => location_sessions[i].devices_seen[j]
                       # location_sessions[i].devices_seen[k]

\* a step changes the device list of the current session at most, by
\* appending one device the list did not hold
OnlyCurrentGains ==
    \A i \in 1..Len(location_sessions) :
        location_sessions'[i].devices_seen # location_sessions[i].devices_seen =>
            /\ i = current_location
            /\ attributed' # << >>
            /\ \E mac \in Devices :
                  /\ ~InSeq(mac, location_sessions[i].devices_seen)
                  /\ location_sessions'[i].devices_seen
                        = Append(location_sessions[i].devices_seen, mac)

(***************************************************************************)
(* C24.  add_device_at_current_location is idempotent and touches only    *)
(* the current session: a call with a device the current session already   *)
(* holds leaves every device list unchanged, a device occurs at most once  *)
(* in a device list, and no session other than the current one ever gains  *)
(* a device.                                                               *)
(***************************************************************************)
Thm_C24 == []NoDeviceTwice /\ [][OnlyCurrentGains]_vars

\* a call has just returned; the current session, which is not the newest,
\* holds both devices and the newest session holds one of them
Wit_C24 ==
    /\ attributed # << >>
    /\ Len(location_sessions) = 2
    /\ current_location = 1
    /\ Len(location_sessions[1].devices_seen) = 2
    /\ Len(location_sessions[2].devices_seen) = 1

(***************************************************************************)
(* C25.  get_devices_across_locations returns exactly the devices that     *)
(* occur in the device lists of sessions with more than one distinct       *)
(* session identifier, each mapped to those identifiers; a device listed   *)
(* under one identifier only, in however many sessions, is not returned.   *)
(***************************************************************************)
IdentifiersListing(mac) ==
    {location_sessions[i].session_id :
        i \in {k \in 1..Len(location_sessions) :
                  \E j \in 1..Len(location_sessions[k].devices_seen) :
                      location_sessions[k].devices_seen[j] = mac}}

AcrossIsExact ==
    across' # across =>
        LET returned == across'[1]
        IN  /\ DOMAIN returned =
                   {mac \in Devices : Cardinality(IdentifiersListing(mac)) > 1}
            /\ \A mac \in DOMAIN returned :
                   /\ {returned[mac][k] : k \in 1..Len(returned[mac])}
                          = IdentifiersListing(mac)
                   /\ Len(returned[mac]) = Cardinality(IdentifiersListing(mac))

Thm_C25 == [][AcrossIsExact]_vars

\* one device was returned with its two identifiers while the other device,
\* listed in two sessions that carry the same identifier, was not
Wit_C25 ==
    /\ across # << >>
    /\ across = <<multi_location_devices(location_sessions)>>
    /\ DOMAIN across[1] = {"d1"}
    /\ Len(across[1]["d1"]) = 2
    /\ \E i, j \in 1..Len(location_sessions) :
           /\ i < j
           /\ location_sessions[i].session_id = location_sessions[j].session_id
           /\ InSeq("d2", location_sessions[i].devices_seen)
           /\ InSeq("d2", location_sessions[j].devices_seen)

(***************************************************************************)
(* C26.  Input errors are rejected at ingestion: a reading with a          *)
(* non-finite coordinate creates no session and changes none, and a        *)
(* malformed sighting is not added to any history.  Stated on the state:   *)
(* no session is located at a non-finite latitude, and no history is kept  *)
(* under an empty device identifier.                                       *)
(***************************************************************************)
NoSessionAtNaN ==
    \A i \in 1..Len(location_sessions) :
        location_sessions[i].location.latitude # NaN

NoMalformedSighting ==
    /\ "" \notin DOMAIN device_history
    /\ \A i \in 1..Len(appearances) : appearances[i].mac # ""

CE_C26 == NoSessionAtNaN /\ NoMalformedSighting

(***************************************************************************)
(* C27.  When several sessions lie within the location threshold of a new  *)
(* reading, the reading is assigned to the nearest of them: the session    *)
(* made current carries the identifier of a session that no other session  *)
(* within the threshold is nearer than.  A step of latitude is 111.195 m,   *)
(* so within the threshold of 100 m means at most 8 steps away.            *)
(***************************************************************************)
StepsFrom(i, lat) ==
    IF location_sessions[i].location.latitude < lat
    THEN lat - location_sessions[i].location.latitude
    ELSE location_sessions[i].location.latitude - lat

AssignedToNearest ==
    Len(locations') = Len(locations) + 1 =>
        LET lat == locations'[Len(locations')].latitude
            near == {i \in 1..Len(location_sessions) : StepsFrom(i, lat) <= 8}
        IN  near # {} =>
                \E i \in near :
                    /\ \A j \in near : StepsFrom(i, lat) <= StepsFrom(j, lat)
                    /\ location_sessions'[current_location'].session_id
                           = location_sessions[i].session_id

CE_C27 == [][AssignedToNearest]_vars

(***************************************************************************)
(* C28.  A timed-out session is never revived.  For a reading that falls   *)
(* within the threshold of a session A more than the session timeout after *)
(* A's end time: A is left as it was, and a new session is appended and    *)
(* made current; and a session's end time changes only through a reading   *)
(* assigned to it within the timeout.                                      *)
(***************************************************************************)
ReadingMade == Len(locations') = Len(locations) + 1

TimedOutNear ==
    {i \in 1..Len(location_sessions) :
        /\ StepsFrom(i, locations'[Len(locations')].latitude) <= 8
        /\ clock - location_sessions[i].end_time > 600}

TimedOutUntouched ==
    ReadingMade =>
        \A i \in TimedOutNear : location_sessions'[i] = location_sessions[i]

NewSessionMadeCurrent ==
    /\ Len(location_sessions') = Len(location_sessions) + 1
    /\ current_location' = Len(location_sessions')
    /\ location_sessions'[current_location'].start_time = clock
    /\ location_sessions'[current_location'].end_time = clock
    /\ location_sessions'[current_location'].devices_seen = << >>

NewSessionAfterTimeout ==
    (ReadingMade /\ TimedOutNear # {}) => NewSessionMadeCurrent

EndTimeOnlyWithinTimeout ==
    \A i \in 1..Len(location_sessions) :
        location_sessions'[i].end_time # location_sessions[i].end_time =>
            /\ ReadingMade
            /\ current_location' = i
            /\ location_sessions'[i].end_time = clock
            /\ clock - location_sessions[i].end_time <= 600

LiveWithReturnedId ==
    {j \in 1..Len(location_sessions) :
        /\ location_sessions[j].session_id
               = location_sessions'[current_location'].session_id
        /\ clock - location_sessions[j].end_time <= 600}

NewSessionUnlessLive ==
    (ReadingMade /\ TimedOutNear # {}) =>
        IF LiveWithReturnedId = {}
        THEN NewSessionMadeCurrent
        ELSE /\ Len(location_sessions') = Len(location_sessions)
             /\ current_location' \in LiveWithReturnedId
             /\ current_location' \notin TimedOutNear
             /\ location_sessions'[current_location'].end_time = clock

IgnoredInAnyCase == {"cc:03", "cC:03", "Cc:03", "CC:03"}

AllMacsKept ==
    past_five_mins_macs \cup five_ten_min_ago_macs
        \cup ten_fifteen_min_ago_macs \cup fifteen_twenty_min_ago_macs

AllSsidsKept ==
    past_five_mins_ssids \cup five_ten_min_ago_ssids
        \cup ten_fifteen_min_ago_ssids \cup fifteen_twenty_min_ago_ssids

Thm_C29 ==
    /\ AllMacsKept \cap IgnoredInAnyCase = {}
    /\ AllSsidsKept \cap {"spam", ""} = {}
    /\ \A msg \in emitted :
           msg.kind = "mac" => msg.id \notin IgnoredInAnyCase

\* after a rotation, the ignored device and the device without a probed
\* name are both in the active slice; a reappearance was reported, for
\* another device, and the buckets hold the two devices not ignored
Wit_C29 ==
    /\ pc = "check_rotate"
    /\ time_count > list_update_interval
    /\ \E r \in current_devices : r.devmac = "cc:03" /\ r.ssid = "spam"
    /\ \E r \in current_devices : r.ssid = ""
    /\ \E msg \in emitted : msg.kind = "mac"
    /\ AllMacsKept = {"AA:01", "BB:02"}
    /\ AllSsidsKept = {"home"}

(***************************************************************************)
(* C30.  Devices with equal scores appear in the result of an analysis in  *)
(* the order in which their first appearance was recorded, and analysing   *)
(* the same recorded appearances again gives the same list.                *)
(***************************************************************************)
KeyPosition(mac) ==
    CHOOSE p \in 1..Len(history_keys) : history_keys[p] = mac

EqualScores(a, b) ==
    a.persistence_score.num * b.persistence_score.den
        = b.persistence_score.num * a.persistence_score.den

Thm_C30 ==
    \A k \in 1..Len(results) :
        /\ results[k] = results[1]
        /\ \A i, j \in 1..Len(results[k]) :
               (i < j /\ EqualScores(results[k][i], results[k][j]))
                   => KeyPosition(results[k][i].mac)
                          < KeyPosition(results[k][j].mac)

\* two analyses returned both devices with one score, the device recorded
\* first, "m2", ahead of "m1"
Wit_C30 ==
    /\ Len(results) = 2
    /\ Len(results[2]) = 2
    /\ EqualScores(results[2][1], results[2][2])
    /\ history_keys = <<"m2", "m1">>
    /\ results[2][1].mac = "m2"

====
